---- MODULE Spec2Model ----
(***************************************************************************)
(* Model of classes/filters/filter.py: the Operators enum, the generic     *)
(* Filter class (cast, check, from_obj, to_keyval, _parse_str) and the     *)
(* module function get_filters, which merges packaged filter classes with  *)
(* the default field filters.                                              *)
(*                                                                         *)
(* Python strings are sequences of one-character strings, so that the      *)
(* substring test `a in b`, str.lower(), string concatenation and the      *)
(* lexicographic order are computed, not assumed.  Python values are       *)
(* tagged records [t, n, s]: an int n, a str s (its characters), or None. *)
(***************************************************************************)
EXTENDS Integers, Sequences, FiniteSets, TLC

VARIABLES plugins, filter_dict, enum_strict, pc, loaded, origin, raised, cl, last

vars == <<plugins, filter_dict, enum_strict, pc, loaded, origin, raised, cl, last>>

----------------------------------------------------------------------------
(* Python str *)

\* The characters the model uses, in code point order.
AsciiOrder ==
    << " ", ".", "0", "1", "2", "3", "4", "5", "6", "7", "8", "9",
       "A", "F", "I", "M", "N", "T", "X", "_",
       "a", "b", "c", "d", "e", "f", "g", "h", "i", "j", "k", "l", "m",
       "n", "o", "p", "q", "r", "s", "t", "u", "v", "w", "x", "y", "z" >>

Ord(c) == CHOOSE i \in DOMAIN AsciiOrder : AsciiOrder[i] = c

LowerChar(c) ==
    CASE c = "A" -> "a" [] c = "F" -> "f" [] c = "I" -> "i" [] c = "M" -> "m"
      [] c = "N" -> "n" [] c = "T" -> "t" [] c = "X" -> "x" [] OTHER -> c

\* A function on 1..n as the sequence of its values.
AsList(f) == f \o << >>

\* str.lower()
Lower(s) == AsList([i \in DOMAIN s |-> LowerChar(s[i])])

\* `needle in hay` on two str
Contains(needle, hay) ==
    \E i \in 0..(Len(hay) - Len(needle)) :
        SubSeq(hay, i + 1, i + Len(needle)) = needle

\* a < b on two str: code point order, a proper prefix is smaller
StrLess(a, b) ==
    \E k \in 1..Len(b) :
        /\ k <= Len(a) + 1
        /\ SubSeq(a, 1, k - 1) = SubSeq(b, 1, k - 1)
        /\ \/ k = Len(a) + 1
           \/ Ord(a[k]) < Ord(b[k])

StrLessEq(a, b) == a = b \/ StrLess(a, b)

Digits == << "0", "1", "2", "3", "4", "5", "6", "7", "8", "9" >>

IsDigit(c) == \E i \in DOMAIN Digits : Digits[i] = c

DigitVal(c) == (CHOOSE i \in DOMAIN Digits : Digits[i] = c) - 1

AllDigits(s) == \A i \in DOMAIN s : IsDigit(s[i])

RECURSIVE NatOf(_)
\* The number a non-empty digit string denotes.
NatOf(s) ==
    IF s = << >> THEN 0
    ELSE 10 * NatOf(SubSeq(s, 1, Len(s) - 1)) + DigitVal(s[Len(s)])

RECURSIVE NatStr(_)
NatStr(n) ==
    IF n < 10 THEN << Digits[n + 1] >>
    ELSE NatStr(n \div 10) \o << Digits[(n % 10) + 1] >>

\* str(n) of an int (the model's values are never negative)
IntStr(n) == NatStr(n)

RECURSIVE Strip(_)
\* str.strip() for blanks, which float() applies to its argument
Strip(s) ==
    IF s = << >> THEN s
    ELSE IF Head(s) = " " THEN Strip(Tail(s))
    ELSE IF s[Len(s)] = " " THEN Strip(SubSeq(s, 1, Len(s) - 1))
    ELSE s

----------------------------------------------------------------------------
(* Python values *)

NoneV == [t |-> "none", n |-> 0, s |-> << >>]
IntV(n) == [t |-> "int", n |-> n, s |-> << >>]
StrV(s) == [t |-> "str", n |-> 0, s |-> s]

\* An exception that int(float(val)) raises and _cast lets through.
RaiseV(e) == [t |-> e, n |-> 0, s |-> << >>]

IsRaise(c) == c.t \notin {"int", "str", "none"}

\* str(val)
Str(val) ==
    CASE val.t = "int" -> IntStr(val.n)
      [] val.t = "str" -> val.s
      [] OTHER -> << "N", "o", "n", "e" >>

\* int(float(s)) of a str s: "int" with the truncated value, "OverflowError"
\* for an infinity (int() of it raises), "ValueError" for a NaN (int() of it
\* raises) and for text float() does not accept.  The grammar is
\* digits [. digits] | . digits, or inf | infinity | nan in any case; an
\* exponent or a sign is outside the values the model draws.
FloatText(w) ==
    LET dots == {i \in DOMAIN w : w[i] = "."}
        dot == IF dots = {} THEN Len(w) + 1 ELSE CHOOSE i \in dots : TRUE
    IN  IF w \in { <<"i","n","f">>, <<"i","n","f","i","n","i","t","y">> }
        THEN [t |-> "OverflowError", v |-> 0]
        ELSE IF w = <<"n","a","n">>
        THEN [t |-> "ValueError", v |-> 0]
        ELSE IF /\ Cardinality(dots) <= 1
                /\ \A i \in DOMAIN w : i \in dots \/ IsDigit(w[i])
                /\ Len(w) > Cardinality(dots)
        THEN [t |-> "int", v |-> NatOf(SubSeq(w, 1, dot - 1))]
        ELSE [t |-> "ValueError", v |-> 0]

IntOfFloat(s) == FloatText(Lower(Strip(s)))

\* The value _cast returns for a str, given what int(float(val)) did.
CastStr(val, r) ==
    CASE r.t = "int" -> IntV(r.v)
      [] r.t = "OverflowError" -> RaiseV("OverflowError")
      [] OTHER -> StrV(Str(val))

\* Filter._cast: int(float(val)), or str(val) when that raises ValueError.
\* An int comes back unchanged (the model's ints are far below 2^53, where
\* float() would start to round).
\* Any other exception of int(float(val)) is not caught: the result is then
\* RaiseV(<exception>).
_cast(val) ==
    CASE val.t = "int" -> val
      [] val.t = "none" -> RaiseV("TypeError")
      [] OTHER -> CastStr(val, IntOfFloat(val.s))

----------------------------------------------------------------------------
(* class Operators(Enum) *)

\* The members in definition order, which is the order `for k in Operators`
\* visits them in.
Operators == << "EQUALS", "MINIMUM", "MAXIMUM", "MATCH" >>

OperatorSet == {Operators[i] : i \in DOMAIN Operators}

\* The operator of a Filter that has none yet (Python's None).
NoOp == "None"

\* Operators.<member>.value
OpValue(op) ==
    CASE op = "EQUALS" -> << ".", "e", "q", "u", "a", "l", "s" >>
      [] op = "MINIMUM" -> << ".", "m", "i", "n" >>
      [] op = "MAXIMUM" -> << ".", "m", "a", "x" >>
      [] op = "MATCH" -> << ".", "m", "a", "t", "c", "h" >>

----------------------------------------------------------------------------
(* class Filter *)

\* Filter.__init__, and a packaged subclass's __init__ calling it with its
\* own field: a new object with no operator and no limit.  oid is the
\* identity of the Python object.
NewFilter(cls, field, oid) ==
    [cls |-> cls, field |-> field, operator |-> NoOp, limit |-> NoneV, oid |-> oid]

\* Filter._lookup_operator.  `op in Operators` with op = None is False, except
\* on the interpreters (3.8 to 3.11) where a non-member operand makes the
\* enum's containment test raise TypeError.
_lookup_operator(op, return_value) ==
    IF op \in OperatorSet
    THEN IF return_value THEN [t |-> "str", b |-> TRUE, s |-> OpValue(op)]
                         ELSE [t |-> "bool", b |-> TRUE, s |-> << >>]
    ELSE IF enum_strict THEN [t |-> "TypeError", b |-> FALSE, s |-> << >>]
    ELSE [t |-> "bool", b |-> FALSE, s |-> << >>]

\* The loop of _parse_str: the last member, in definition order, whose token
\* occurs in the lower-cased key; None when there is none.
LastTokenIn(str_key) ==
    LET hits == {i \in DOMAIN Operators : Contains(OpValue(Operators[i]), Lower(str_key))}
    IN  IF hits = {} THEN NoOp
        ELSE Operators[CHOOSE i \in hits : \A j \in hits : j <= i]

\* ParseEnd falling back to EQUALS for an operator it cannot look up.
ParseEnd_DefaultEquals(self, op, lk) ==
    IF lk.t = "bool" /\ lk.b
    THEN [ret |-> "True", self |-> [self EXCEPT !.operator = op], exc |-> "none"]
    ELSE [ret |-> "True", self |-> [self EXCEPT !.operator = "EQUALS"], exc |-> "none"]

\* The end of _parse_str, given the operator found and what
\* _lookup_operator answers for it.
ParseEnd(self, op, lk) ==
    CASE lk.t = "TypeError" ->
            [ret |-> "raise", self |-> self, exc |-> lk.t]
      [] lk.b ->
            [ret |-> "True", self |-> [self EXCEPT !.operator = op], exc |-> "none"]
      [] OTHER ->
            [ret |-> "raise", self |-> self, exc |-> "UnableToParseOperator"]

ParseOp(self, op) == ParseEnd(self, op, _lookup_operator(op, FALSE))

\* _parse_str without its first test, `self.field not in str_key`.
_parse_str_NoFieldTest(self, str_key) ==
    ParseOp(self, IF ~Contains(<< "." >>, str_key) THEN "EQUALS"
                  ELSE LastTokenIn(str_key))

\* Filter._parse_str: [ret, self, exc]; ret is "False", "True" or "raise".
_parse_str(self, str_key) ==
    IF ~Contains(self.field, str_key)
    THEN [ret |-> "False", self |-> self, exc |-> "none"]
    ELSE ParseOp(self, IF ~Contains(<< "." >>, str_key) THEN "EQUALS"
                       ELSE LastTokenIn(str_key))

\* Filter._convert_imported_limit: the value unchanged.
_convert_imported_limit(val) == val

\* The _convert_imported_limit of the packaged subclasses.  UTCFilter accepts
\* a value that reads as a number and answers None for any other; ScoreFilter
\* does not override the method.
PluginConvert(cls, val) ==
    IF cls = "UTCFilter"
    THEN IF _cast(val).t = "int" THEN val ELSE NoneV
    ELSE _convert_imported_limit(val)

\* self._convert_imported_limit(val), dispatched on the class of self.
ConvertOf(self, val) ==
    IF self.cls = "Filter" THEN _convert_imported_limit(val)
    ELSE PluginConvert(self.cls, val)

SetCast(self, c) ==
    IF IsRaise(c) THEN [self |-> self, exc |-> c.t]
    ELSE [self |-> [self EXCEPT !.limit = c], exc |-> "none"]

\* Filter.set_limit: [self, exc]
set_limit(self, limit) == SetCast(self, _cast(limit))

\* The end of from_obj, given what set_limit did.
FromSet(self, s) ==
    IF s.exc # "none" THEN [ret |-> "raise", self |-> self, exc |-> s.exc]
    ELSE [ret |-> "True", self |-> s.self, exc |-> "none"]

\* from_obj after the conversion of the value.
FromConv(self, conv) ==
    IF conv.t = "none" THEN [ret |-> "False", self |-> self, exc |-> "none"]
    ELSE FromSet(self, set_limit(self, conv))

\* from_obj after _parse_str, whose outcome is p.
FromParsed(p, value) ==
    IF p.ret # "True" THEN p
    ELSE FromConv(p.self, ConvertOf(p.self, value))

\* Filter.from_obj: [ret, self, exc]
from_obj(self, key, value) == FromParsed(_parse_str(self, key), value)

\* KeyvalOf leaving the operator's token out of the key.
KeyvalOf_NoToken(self, lk) ==
    IF lk.t = "TypeError"
    THEN [ret |-> "raise", key |-> << >>, val |-> NoneV, exc |-> lk.t]
    ELSE [ret |-> "ok", key |-> self.field, val |-> self.limit, exc |-> "none"]

KeyvalOf(self, lk) ==
    CASE lk.t = "TypeError" ->
            [ret |-> "raise", key |-> << >>, val |-> NoneV, exc |-> lk.t]
      [] lk.t = "str" ->
            [ret |-> "ok", key |-> self.field \o lk.s, val |-> self.limit, exc |-> "none"]
      [] OTHER ->
            [ret |-> "ok", key |-> self.field, val |-> self.limit, exc |-> "none"]

\* Filter.to_keyval: [ret, key, val, exc]
to_keyval(self) == KeyvalOf(self, _lookup_operator(self.operator, TRUE))

\* re.compile(pat, re.IGNORECASE).search(text) for a pattern of literal
\* characters and '.', which matches any character.
RegexSearch(pat, text) ==
    \E i \in 0..(Len(text) - Len(pat)) :
        \A j \in 1..Len(pat) :
            pat[j] = "." \/ LowerChar(pat[j]) = LowerChar(text[i + j])

Bool(b) == IF b THEN "True" ELSE "False"

\* Compare with strict order comparisons.
Compare_Strict(operator, val, lim) ==
    CASE operator = "EQUALS" -> Bool(val = lim)
      [] val.t = "int" /\ lim.t = "int" ->
            Bool(IF operator = "MAXIMUM" THEN val.n < lim.n ELSE val.n > lim.n)
      [] val.t = "str" /\ lim.t = "str" ->
            Bool(IF operator = "MAXIMUM" THEN StrLess(val.s, lim.s)
                                         ELSE StrLess(lim.s, val.s))
      [] OTHER -> "TypeError"

\* val <= lim, val >= lim, val == lim of two Python values: "True", "False",
\* or "TypeError" for an order comparison of an int or str with None or of an
\* int with a str.
Compare(operator, val, lim) ==
    CASE operator = "EQUALS" -> Bool(val = lim)
      [] val.t = "int" /\ lim.t = "int" ->
            Bool(IF operator = "MAXIMUM" THEN val.n <= lim.n ELSE val.n >= lim.n)
      [] val.t = "str" /\ lim.t = "str" ->
            Bool(IF operator = "MAXIMUM" THEN StrLessEq(val.s, lim.s)
                                         ELSE StrLessEq(lim.s, val.s))
      [] OTHER -> "TypeError"

CompareEnd(r) ==
    IF r = "TypeError" THEN [ret |-> "raise", exc |-> r] ELSE [ret |-> r, exc |-> "none"]

\* The operator dispatch of check on the two sides val and lim.
Dispatch(self, val, lim) ==
    IF self.operator \in {"MAXIMUM", "MINIMUM", "EQUALS"}
    THEN CompareEnd(Compare(self.operator, val, lim))
    ELSE IF self.operator = "MATCH"
    THEN [ret |-> Bool(RegexSearch(Str(self.limit), Str(val))), exc |-> "none"]
    ELSE [ret |-> "raise", exc |-> "InvalidComparator"]

\* check after the cast c of the attribute.
CheckCast(self, c) ==
    IF IsRaise(c) THEN [ret |-> "raise", exc |-> c.t]
    ELSE IF c.t = "str" \/ self.limit.t = "str"
    THEN Dispatch(self, StrV(Lower(Str(c))), StrV(Lower(Str(self.limit))))
    ELSE Dispatch(self, c, self.limit)

\* Filter.check on an object whose attributes are the function obj (attribute
\* name -> value): [ret, exc], ret is "True", "False" or "raise".
check(self, obj) ==
    IF self.field \notin DOMAIN obj
    THEN [ret |-> "raise", exc |-> "NoField"]
    ELSE CheckCast(self, _cast(obj[self.field]))

----------------------------------------------------------------------------
(* get_filter_fields and the packaged filter classes *)

\* The keys of the dict get_filter_fields returns, in insertion order (the
\* order .items() visits them in).  The descriptions take no part in binding
\* or comparison and are left out of the Filter objects.
get_filter_fields ==
    << << "l", "i", "n", "k", "_", "c", "o", "u", "n", "t" >>,
       << "t", "y", "p", "e" >>,
       << "t", "i", "t", "l", "e" >>,
       << "a", "u", "t", "h", "o", "r" >>,
       << "b", "o", "d", "y" >>,
       << "s", "u", "b", "r", "e", "d", "d", "i", "t" >>,
       << "o", "v", "e", "r", "_", "1", "8" >>,
       << "c", "r", "e", "a", "t", "e", "d", "_", "u", "t", "c" >>,
       << "n", "u", "m", "_", "c", "o", "m", "m", "e", "n", "t", "s" >>,
       << "s", "c", "o", "r", "e" >> >>

\* The classes _module_classes finds in the *_filter modules that
\* pkgutil.iter_modules lists (in module name order), and the field each
\* passes to Filter.__init__.
PluginField(cls) ==
    IF cls = "UTCFilter" THEN << "c", "r", "e", "a", "t", "e", "d", "_", "u", "t", "c" >>
    ELSE << "s", "c", "o", "r", "e" >>

\* The sets of packaged classes an installation may hold, each in module
\* name order (created_utc_filter before score_filter).
Registries ==
    { << >>, << "UTCFilter" >>, << "ScoreFilter" >>, << "UTCFilter", "ScoreFilter" >> }

----------------------------------------------------------------------------
(* get_filters *)

SeqContains(seq, x) == \E i \in DOMAIN seq : seq[i] = x

\* Attempts with the loops swapped: for each item, for each class.
Attempts_EntryMajor(classes, nitems) ==
    AsList([k \in 1..(Len(classes) * nitems) |->
        [cls |-> classes[((k - 1) % Len(classes)) + 1].cls,
         field |-> classes[((k - 1) % Len(classes)) + 1].field,
         entry |-> ((k - 1) \div Len(classes)) + 1]])

\* The (class, field, entry) triples of one loop nest: for each class of
\* `classes` (a sequence of [cls, field]), for each item of the dict.
Attempts(classes, nitems) ==
    AsList([k \in 1..(Len(classes) * nitems) |->
        [cls |-> classes[((k - 1) \div nitems) + 1].cls,
         field |-> classes[((k - 1) \div nitems) + 1].field,
         entry |-> ((k - 1) % nitems) + 1]])

FirstOf(S) == CHOOSE k \in S : \A j \in S : k <= j

\* BindEnd without the bookkeeping of `used`.
BindEnd_NoUsed(attempts, res, stop, ok, mark_used, acc) ==
    [loaded |-> acc.loaded \o [j \in DOMAIN ok |-> res[ok[j]].self],
     origin |-> acc.origin \o [j \in DOMAIN ok |-> attempts[ok[j]].entry],
     used |-> acc.used,
     n |-> acc.n + (IF stop > Len(attempts) THEN Len(attempts) ELSE stop),
     exc |-> IF stop > Len(attempts) THEN "none" ELSE res[stop].exc]

\* The loop nest's result, given each attempt's from_obj outcome res[k], the
\* index `stop` of the first that raised (one past the end if none did) and
\* the indexes ok of those before it that answered True.
BindEnd(attempts, res, stop, ok, mark_used, acc) ==
    [loaded |-> acc.loaded \o [j \in DOMAIN ok |-> res[ok[j]].self],
     origin |-> acc.origin \o [j \in DOMAIN ok |-> attempts[ok[j]].entry],
     used |-> IF mark_used THEN acc.used \o [j \in DOMAIN ok |-> attempts[ok[j]].field]
              ELSE acc.used,
     n |-> acc.n + (IF stop > Len(attempts) THEN Len(attempts) ELSE stop),
     exc |-> IF stop > Len(attempts) THEN "none" ELSE res[stop].exc]

BindStop(attempts, res, stop, mark_used, acc) ==
    BindEnd(attempts, res, stop,
            SelectSeq([k \in 1..(stop - 1) |-> k], LAMBDA k : res[k].ret = "True"),
            mark_used, acc)

BindRes(attempts, res, raising, mark_used, acc) ==
    BindStop(attempts, res,
             IF raising = {} THEN Len(attempts) + 1 ELSE FirstOf(raising),
             mark_used, acc)

BindAll(attempts, res, mark_used, acc) ==
    BindRes(attempts, res, {k \in DOMAIN attempts : res[k].ret = "raise"}, mark_used, acc)

\* One loop nest of get_filters over `attempts`: a new object per attempt,
\* from_obj on it, and on True the object is appended to loaded (and its
\* field to used when mark_used).  The first exception ends the run. The
\* attempts share no object, so each outcome is computed on its own; acc.n
\* counts the objects created so far, acc.origin records the dict item each
\* loaded object was built from.
Bind(attempts, items, mark_used, acc) ==
    BindAll(attempts,
            AsList([k \in DOMAIN attempts |->
                from_obj(NewFilter(attempts[k].cls, attempts[k].field, acc.n + k),
                         items[attempts[k].entry].key, items[attempts[k].entry].value)]),
            mark_used, acc)

\* One unbound object per class, in order (the branch taken when
\* filter_dict is None).
Unbound(classes, mark_used, acc) ==
    [acc EXCEPT
        !.loaded = @ \o [k \in DOMAIN classes |->
                            NewFilter(classes[k].cls, classes[k].field, acc.n + k)],
        !.origin = @ \o [k \in DOMAIN classes |-> 0],
        !.used = IF mark_used THEN @ \o [k \in DOMAIN classes |-> classes[k].field] ELSE @,
        !.n = @ + Len(classes)]

PluginClasses(reg) ==
    AsList([k \in DOMAIN reg |-> [cls |-> reg[k], field |-> PluginField(reg[k])]])

\* The default fields whose name is not in used, as generic classes.
GenericClasses(keep) ==
    AsList([k \in DOMAIN keep |-> [cls |-> "Filter", field |-> keep[k]]])

UnusedDefaults(used) ==
    GenericClasses(SelectSeq(get_filter_fields, LAMBDA f : ~SeqContains(used, f)))

Acc0 == [loaded |-> << >>, origin |-> << >>, used |-> << >>, n |-> 0, exc |-> "none"]

\* What get_filters hands back, given the state `all` its loops ended in.
Return(all) ==
    IF all.exc # "none"
    THEN [ret |-> "raise", loaded |-> << >>, origin |-> << >>, used |-> all.used, exc |-> all.exc]
    ELSE [ret |-> "ok", loaded |-> all.loaded, origin |-> all.origin, used |-> all.used, exc |-> "none"]

\* The second loop: the default field filters, after the first loop ended in
\* `special`.
Defaults(fd, special) ==
    IF special.exc # "none" THEN special
    ELSE IF fd.none THEN Unbound(UnusedDefaults(special.used), FALSE, special)
    ELSE Bind(Attempts(UnusedDefaults(special.used), Len(fd.items)), fd.items, FALSE, special)

\* The first loop: the packaged classes.
Specials(reg, fd) ==
    IF fd.none THEN Unbound(PluginClasses(reg), TRUE, Acc0)
    ELSE Bind(Attempts(PluginClasses(reg), Len(fd.items)), fd.items, TRUE, Acc0)

\* get_filters(filter_dict) with the packaged classes reg: [ret, loaded,
\* origin, used, exc].  ret is "ok" with the list returned, or "raise".
get_filters(reg, fd) == Return(Defaults(fd, Specials(reg, fd)))

----------------------------------------------------------------------------
(* Inputs *)

\* The longest filter_dict the model passes to get_filters.
MaxEntries == 2

Entry(key, value) == [key |-> key, value |-> value]

\* The settings items the dicts are built from: keys with each operator
\* token, with none, with two, in upper case, with an unknown token; keys
\* naming no field, a field inside a longer name, two fields; values that
\* are numbers, numeric text, text, and the text "inf".
EntryPool ==
    { Entry(<< "c", "r", "e", "a", "t", "e", "d", "_", "u", "t", "c", ".", "m", "i", "n" >>, IntV(0)),
      Entry(<< "c", "r", "e", "a", "t", "e", "d", "_", "u", "t", "c", ".", "m", "a", "x" >>, IntV(100)),
      Entry(<< "c", "r", "e", "a", "t", "e", "d", "_", "u", "t", "c", ".", "m", "a", "x" >>, StrV(<< "a", "b", "c" >>)),
      Entry(<< "t", "i", "t", "l", "e", ".", "m", "a", "t", "c", "h" >>, StrV(<< "T", "e", "s", "t" >>)),
      Entry(<< "t", "i", "t", "l", "e", "_", "c", "r", "e", "a", "t", "e", "d", "_", "u", "t", "c", ".", "m", "i", "n" >>, IntV(0)),
      Entry(<< "n", "e", "t", "_", "s", "c", "o", "r", "e", ".", "M", "A", "X" >>, StrV(<< "3", ".", "9" >>)),
      Entry(<< "s", "c", "o", "r", "e", ".", "m", "i", "n", ".", "m", "a", "x" >>, IntV(10)),
      Entry(<< "f", "l", "a", "i", "r", ".", "f", "o", "o" >>, IntV(0)),
      Entry(<< "s", "c", "o", "r", "e", ".", "f", "o", "o" >>, IntV(0)),
      Entry(<< "a", "u", "t", "h", "o", "r", ".", "e", "q", "u", "a", "l", "s" >>, StrV(<< "i", "n", "f" >>)) }

\* A dict holds a key once; its items keep their insertion order.
DictItems ==
    { s \in UNION { [1..n -> EntryPool] : n \in 0..MaxEntries } :
        \A i, j \in DOMAIN s : i # j => s[i].key # s[j].key }

\* filter_dict: None, or a dict.
Dicts ==
    { [none |-> TRUE, items |-> << >>] } \cup { [none |-> FALSE, items |-> s] : s \in DictItems }

\* The Filter objects a caller builds itself: generic ones for default
\* fields, and the packaged classes.
CallerClasses ==
    { [cls |-> "Filter", field |-> << "s", "c", "o", "r", "e" >>],
      [cls |-> "Filter", field |-> << "t", "i", "t", "l", "e" >>],
      [cls |-> "Filter", field |-> << "c", "r", "e", "a", "t", "e", "d", "_", "u", "t", "c" >>],
      [cls |-> "Filter", field |-> << "s", "u", "b", "r", "e", "d", "d", "i", "t" >>],
      [cls |-> "UTCFilter", field |-> PluginField("UTCFilter")] }

\* The keys and values the caller's own objects parse: those of the dicts,
\* and a bare field name, one more key per comparison token, and None.
CallerKeys ==
    { e.key : e \in EntryPool }
        \cup { << "s", "c", "o", "r", "e", ".", "m", "i", "n" >>, << "s", "c", "o", "r", "e", ".", "m", "a", "x" >>, << "t", "i", "t", "l", "e" >>, << "c", "r", "e", "a", "t", "e", "d", "_", "u", "t", "c" >>, << "s", "u", "b", "r", "e", "d", "d", "i", "t", ".", "e", "q", "u", "a", "l", "s" >> }

CallerValues == { e.value : e \in EntryPool } \cup { StrV(<< "F", "u", "n", "n", "y" >>), NoneV }

\* The values an inspected attribute takes.
AttrValues ==
    { IntV(9), IntV(10), IntV(11), StrV(<< "f", "u", "n", "n", "y" >>), StrV(<< "T", "e", "s", "t", " ", "T", "i", "t", "l", "e" >>), StrV(<< "n", "o", "n", "e", " ", "h", "e", "r", "e" >>), StrV(<< "i", "n", "f" >>), StrV(<< "1", "0" >>), NoneV }

----------------------------------------------------------------------------
(* The state machine *)

NoFilter == [cls |-> "none", field |-> << >>, operator |-> NoOp, limit |-> NoneV, oid |-> 0]

NoObj == [has |-> FALSE, attr |-> NoneV]

\* The record of the last method call: the object before it (self), the
\* arguments, the outcome (ret, exc), and the object after it (after; for
\* "reparse" the new object that parsed the pair okey, oval).
NoCall ==
    [call |-> "none", self |-> NoFilter, key |-> << >>, value |-> NoneV, obj |-> NoObj,
     ret |-> "none", exc |-> "none", after |-> NoFilter, okey |-> << >>, oval |-> NoneV]

\* Either a caller about to call get_filters, or a caller holding a Filter
\* object it has just constructed.
Init ==
    /\ enum_strict \in BOOLEAN
    /\ loaded = << >>
    /\ origin = << >>
    /\ raised = "none"
    /\ last = NoCall
    /\ \/ /\ pc = "start"
          /\ plugins \in Registries
          /\ filter_dict \in Dicts
          /\ cl = NoFilter
       \/ /\ pc = "object"
          /\ plugins = << >>
          /\ filter_dict = [none |-> TRUE, items |-> << >>]
          /\ \E c \in CallerClasses : cl = NewFilter(c.cls, c.field, 1)

\* loaded = get_filters(filter_dict)
GetFilters ==
    /\ pc = "start"
    /\ \E r \in {get_filters(plugins, filter_dict)} :
           /\ pc' = IF r.ret = "ok" THEN "returned" ELSE "raised"
           /\ loaded' = r.loaded
           /\ origin' = r.origin
           /\ raised' = r.exc
    /\ UNCHANGED <<plugins, filter_dict, enum_strict, cl, last>>

\* The objects the calls below act on: the caller's own, or those of the
\* list get_filters returned.
Held ==
    IF pc = "object" THEN {cl}
    ELSE IF pc = "returned" THEN {loaded[i] : i \in DOMAIN loaded}
    ELSE {}

Holds(f) == f \in Held

ObjOf(f, o) == IF o.has THEN [x \in {f.field} |-> o.attr] ELSE [x \in {} |-> NoneV]

\* f.check(obj), obj with the attribute f.field or without it.  check and
\* to_keyval change nothing, so each is recorded from the state the object
\* was obtained in.
Check(f, o) ==
    /\ Holds(f)
    /\ last.call \in {"none", "from_obj"}
    /\ \E r \in {check(f, ObjOf(f, o))} :
           last' = [NoCall EXCEPT !.call = "check", !.self = f, !.obj = o,
                                  !.ret = r.ret, !.exc = r.exc, !.after = f]
    /\ cl' = f
    /\ UNCHANGED <<plugins, filter_dict, enum_strict, pc, loaded, origin, raised>>

\* key, val = f.to_keyval()
ToKeyval(f) ==
    /\ Holds(f)
    /\ last.call \in {"none", "from_obj"}
    /\ \E r \in {to_keyval(f)} :
           last' = [NoCall EXCEPT !.call = "to_keyval", !.self = f, !.ret = r.ret,
                                  !.exc = r.exc, !.after = f, !.okey = r.key, !.oval = r.val]
    /\ cl' = f
    /\ UNCHANGED <<plugins, filter_dict, enum_strict, pc, loaded, origin, raised>>

\* type(f)().from_obj(key, val) with the pair to_keyval has just returned: a
\* new object of the same class and field parses it.
Reparse ==
    /\ last.call = "to_keyval" /\ last.ret = "ok"
    /\ \E r \in {from_obj(NewFilter(cl.cls, cl.field, cl.oid + 1), last.okey, last.oval)} :
           last' = [last EXCEPT !.call = "reparse", !.key = last.okey, !.value = last.oval,
                                !.ret = r.ret, !.exc = r.exc, !.after = r.self]
    /\ UNCHANGED <<plugins, filter_dict, enum_strict, pc, loaded, origin, raised, cl>>

\* cl = Filter(...); cl.from_obj(key, value): the caller parses one settings
\* item into the object it has just constructed, as get_filters does.
FromObj(key, value) ==
    /\ pc = "object"
    /\ last.call = "none"
    /\ \E r \in {from_obj(cl, key, value)} :
           /\ last' = [NoCall EXCEPT !.call = "from_obj", !.self = cl, !.key = key,
                                     !.value = value, !.ret = r.ret, !.exc = r.exc,
                                     !.after = r.self]
           /\ cl' = r.self
    /\ UNCHANGED <<plugins, filter_dict, enum_strict, pc, loaded, origin, raised>>

Next ==
    \/ GetFilters
    \/ \E f \in Held, a \in AttrValues : Check(f, [has |-> TRUE, attr |-> a])
    \/ \E f \in Held : Check(f, NoObj)
    \/ \E f \in Held : ToKeyval(f)
    \/ Reparse
    \/ \E k \in CallerKeys, v \in CallerValues : FromObj(k, v)

Spec == Init /\ [][Next]_vars

----------------------------------------------------------------------------
(* Properties *)

Fields(reg) == {PluginField(reg[p]) : p \in DOMAIN reg}

CatalogFields == {get_filter_fields[k] : k \in DOMAIN get_filter_fields}

\* get_filters was called with a dict and returned a list.
Returned == pc = "returned" /\ ~filter_dict.none

Called == pc \in {"returned", "raised"} /\ ~filter_dict.none

Items == filter_dict.items

HasDot(key) == \E i \in DOMAIN key : key[i] = "."

HasToken(key) == \E op \in OperatorSet : Contains(OpValue(op), Lower(key))

\* A key with a '.' and none of the four tokens.
Malformed(key) == HasDot(key) /\ ~HasToken(key)

IsGeneric(f) == f.cls = "Filter"

IsBound(f) == f.operator \in OperatorSet /\ f.limit.t \in {"int", "str"}

\* C1: in configuration-bound mode the returned list never holds a generic
\* Filter whose field is the field of an available packaged class, whatever
\* the packaged class's conversion did with the values.
C1_SpecializedAlwaysWins ==
    Returned =>
        \A i \in DOMAIN loaded :
            IsGeneric(loaded[i]) => loaded[i].field \notin Fields(plugins)

\* The dict items the packaged class cls binds.
BoundBy(cls) ==
    {e \in DOMAIN Items :
        from_obj(NewFilter(cls, PluginField(cls), 0), Items[e].key, Items[e].value).ret = "True"}

\* What C2 says of the packaged class cls, B being the items it binds.
PrecedenceOf(cls, B) ==
    B # {} =>
        /\ \A e \in B :
              Cardinality({i \in DOMAIN loaded : loaded[i].cls = cls /\ origin[i] = e}) = 1
        /\ \A i \in DOMAIN loaded :
              loaded[i].cls = cls =>
                  /\ origin[i] \in B
                  /\ loaded[i].operator = LastTokenIn(Items[origin[i]].key)
                         \/ (~HasDot(Items[origin[i]].key) /\ loaded[i].operator = "EQUALS")
                  /\ loaded[i].limit = _cast(Items[origin[i]].value)
                  /\ \A j \in DOMAIN loaded : j # i => loaded[j].oid # loaded[i].oid
        /\ \A i \in DOMAIN loaded :
              IsGeneric(loaded[i]) => loaded[i].field # PluginField(cls)

\* C2: when a packaged class for field f binds one or more items, the list
\* holds one object of that class per bound item, each a distinct new object
\* with the operator and limit of its own item, and no generic Filter with
\* field f.
C2_DiscoveryPrecedence ==
    Returned =>
        \A p \in DOMAIN plugins : PrecedenceOf(plugins[p], BoundBy(plugins[p]))

\* Two objects of UTCFilter, bound from created_utc.min and created_utc.max.
C2_Witness ==
    /\ Returned
    /\ \E i, j \in DOMAIN loaded :
          /\ i # j
          /\ loaded[i].cls = "UTCFilter" /\ loaded[j].cls = "UTCFilter"
          /\ loaded[i].operator = "MINIMUM" /\ loaded[i].limit = IntV(0)
          /\ loaded[j].operator = "MAXIMUM" /\ loaded[j].limit = IntV(100)

\* C3: for a Filter that from_obj bound, the pair to_keyval returns is
\* accepted by a new object of the same class and field, which ends with the
\* same operator and the same cast limit.
C3_RoundTrip ==
    (last.call = "reparse" /\ IsBound(last.self)) =>
        /\ last.okey = last.self.field \o OpValue(last.self.operator)
        /\ last.ret = "True"
        /\ last.after.operator = last.self.operator
        /\ last.after.limit = last.self.limit
        /\ last.after.oid # last.self.oid

\* The round trip of the Filter bound from 'score.min.max' (two tokens, of
\* which MAXIMUM is kept).
C3_Witness ==
    /\ last.call = "reparse" /\ last.ret = "True"
    /\ pc = "returned"
    /\ \E i \in DOMAIN loaded :
          /\ loaded[i] = last.self
          /\ Items[origin[i]].key = << "s", "c", "o", "r", "e", ".", "m", "i", "n", ".", "m", "a", "x" >>
    /\ last.okey = << "s", "c", "o", "r", "e", ".", "m", "a", "x" >>
    /\ last.after.operator = "MAXIMUM"

\* C4: from_obj on a key that holds the field and a '.' but no token raises
\* and binds nothing; in get_filters the exception ends the call with no
\* list; a key that holds the field and no '.' gives EQUALS.
C4_MalformedOperatorRejected ==
    /\ (last.call = "from_obj" /\ Contains(last.self.field, last.key)
            /\ Malformed(last.key)) =>
          /\ last.ret = "raise"
          /\ last.exc \in {"UnableToParseOperator", "TypeError"}
          /\ last.after = last.self
    /\ (Called /\ \E e \in DOMAIN Items :
                     /\ Malformed(Items[e].key)
                     /\ \E f \in Fields(plugins) \cup CatalogFields :
                           Contains(f, Items[e].key)) =>
          /\ pc = "raised"
          /\ raised # "none"
          /\ loaded = << >>
    /\ (last.call = "from_obj" /\ Contains(last.self.field, last.key)
            /\ ~HasDot(last.key)) =>
          last.after.operator = "EQUALS"

\* get_filters raised on the item 'score.foo'.
C4_Witness ==
    /\ pc = "raised"
    /\ raised \in {"UnableToParseOperator", "TypeError"}
    /\ \E e \in DOMAIN Items : Items[e].key = << "s", "c", "o", "r", "e", ".", "f", "o", "o" >>

\* A key that holds no packaged class's field and no default field.
UnknownKey(key) ==
    \A f \in Fields(plugins) \cup CatalogFields : ~Contains(f, key)

RemoveAt(seq, e) ==
    AsList([k \in 1..(Len(seq) - 1) |-> IF k < e THEN seq[k] ELSE seq[k + 1]])

\* A loaded object without its identity.
Shape(f) == [cls |-> f.cls, field |-> f.field, operator |-> f.operator, limit |-> f.limit]

Shapes(seq) == AsList([k \in DOMAIN seq |-> Shape(seq[k])])

\* The outcome of get_filters on the dict without its e-th item.
Without(e) == get_filters(plugins, [none |-> FALSE, items |-> RemoveAt(Items, e)])

\* The call ended as w, the outcome on another dict, did.
EndedAs(w) ==
    /\ (pc = "returned") = (w.ret = "ok")
    /\ raised = w.exc
    /\ Shapes(loaded) = Shapes(w.loaded)

\* C5: an item whose key holds no known field gives no object and no error,
\* '.' and unknown token or not: the call ends as it does on the dict without
\* that item, with the same objects in the same order.
C5_UnknownFieldDropped ==
    Called =>
        \A e \in DOMAIN Items :
            UnknownKey(Items[e].key) =>
                /\ \A i \in DOMAIN loaded : origin[i] # e
                /\ EndedAs(Without(e))

\* 'flair.foo' beside an item that was bound.
C5_Witness ==
    /\ Returned
    /\ loaded # << >>
    /\ \E e \in DOMAIN Items : Items[e].key = << "f", "l", "a", "i", "r", ".", "f", "o", "o" >>

\* The reference comparison of C6 on the cast attribute a and the limit l.
RefSides(a, l) ==
    IF a.t = "str" \/ l.t = "str"
    THEN [val |-> StrV(Lower(Str(a))), lim |-> StrV(Lower(Str(l)))]
    ELSE [val |-> a, lim |-> l]

RefOrder(x, y) ==
    IF x.t = "int" THEN x.n <= y.n
    ELSE x.s = y.s \/ StrLess(x.s, y.s)

RefCompare(operator, x, y) ==
    CASE operator = "MAXIMUM" -> RefOrder(x, y)
      [] operator = "MINIMUM" -> RefOrder(y, x)
      [] OTHER -> x = y

C7_AbortLeavesUnmutated ==
    (/\ last.call = "from_obj" /\ IsGeneric(last.self)
     /\ Contains(last.self.field, last.key) /\ ~Malformed(last.key)
     /\ ConvertOf(last.self, last.value).t = "none") =>
        /\ last.ret = "False"
        /\ last.after.operator = last.self.operator
        /\ last.after.limit = last.self.limit

\* C8: no dict item is the origin both of an object of a packaged class and
\* of a generic Filter in the returned list.
C8_DefaultOnlyForUnclaimedEntries ==
    Returned =>
        \A i, j \in DOMAIN loaded :
            (~IsGeneric(loaded[i]) /\ IsGeneric(loaded[j])) => origin[i] # origin[j]

IndexOf(seq, x) == CHOOSE k \in DOMAIN seq : seq[k] = x

\* Where a loaded object stands: packaged before generic, then the position
\* of its class among the packaged classes (of its field among the default
\* fields), then the position of its item in the dict.
Rank(i) ==
    IF IsGeneric(loaded[i])
    THEN << 1, IndexOf(get_filter_fields, loaded[i].field), origin[i] >>
    ELSE << 0, IndexOf(plugins, loaded[i].cls), origin[i] >>

LexLess(a, b) ==
    \/ a[1] < b[1]
    \/ a[1] = b[1] /\ a[2] < b[2]
    \/ a[1] = b[1] /\ a[2] = b[2] /\ a[3] < b[3]

\* C9: the returned list is ordered by Rank.
C9_ResultOrdering ==
    Returned =>
        \A i, j \in DOMAIN loaded : i < j => LexLess(Rank(i), Rank(j))

\* Class order beats item order, for packaged and for generic objects.
C9_Witness ==
    /\ Returned
    /\ \E i, j \in DOMAIN loaded :
          /\ i < j /\ origin[i] > origin[j]
          /\ ~IsGeneric(loaded[i]) /\ ~IsGeneric(loaded[j])
    /\ \E i \in DOMAIN loaded : IsGeneric(loaded[i])

\* C10: every generic Filter of the returned list has an operator and a
\* limit; check on it, given the attribute, never ends in the invalid
\* comparator error; check on a generic Filter with no operator, given the
\* attribute, always ends in it.
C10_ReturnedFullyBound ==
    /\ Returned =>
          \A i \in DOMAIN loaded : IsGeneric(loaded[i]) => IsBound(loaded[i])
    /\ (last.call = "check" /\ last.obj.has /\ Returned /\ IsGeneric(last.self)) =>
          last.exc # "InvalidComparator"
    /\ (last.call = "check" /\ last.obj.has /\ IsGeneric(last.self)
            /\ last.self.operator = NoOp) =>
          (last.ret = "raise" /\ last.exc = "InvalidComparator")

====
